---- MODULE Spec2Model ----
(***************************************************************************)
(* A model of charlottesville_crime_data.py: one run of the dashboard      *)
(* script ("a pass") over a loaded incident table: cached load, sidebar    *)
(* filters, final filter, scalar and growth metrics, charts; and the       *)
(* passes, file writes and clock of a session around it.                   *)
(*                                                                         *)
(* Representation.                                                         *)
(*   - A calendar date is the integer YYYYMMDD, which orders dates as the  *)
(*     calendar does; NaT is the missing date.  The Date column is held at *)
(*     day granularity: every comparison of the script is either on        *)
(*     .dt.date or against a midnight timestamp.                           *)
(*   - A cell of a categorical column is Val(s) for the string s, or NaN.  *)
(*   - A DataFrame is the set of its rows; RecordID identifies a row.      *)
(*   - A sorted list without duplicates (an option list) is its set.       *)
(***************************************************************************)
EXTENDS Integers, Sequences, FiniteSets, TLC

(***************************************************************************)
(* Calendar arithmetic (datetime.date, pd.Timestamp, pd.Timedelta)         *)
(***************************************************************************)
NaT == 0

Year(d) == d \div 10000

Month(d) == (d \div 100) % 100

Day(d) == d % 100

MkDate(y, m, d) == y * 10000 + m * 100 + d

IsLeap(y) == (y % 4 = 0 /\ y % 100 # 0) \/ y % 400 = 0

DaysInMonth(y, m) ==
    IF m = 2 THEN (IF IsLeap(y) THEN 29 ELSE 28)
    ELSE IF m \in {4, 6, 9, 11} THEN 30 ELSE 31

\* datetime.date(y, m, d) raises ValueError unless the day exists
ValidDate(y, m, d) == m \in 1..12 /\ d \in 1..DaysInMonth(y, m)

\* x - pd.Timedelta(days=1)
PrevDay(d) ==
    IF Day(d) > 1 THEN d - 1
    ELSE IF Month(d) > 1
         THEN MkDate(Year(d), Month(d) - 1, DaysInMonth(Year(d), Month(d) - 1))
         ELSE MkDate(Year(d) - 1, 12, 31)

RECURSIVE MinusDays(_, _)
\* x - pd.Timedelta(days=n)
MinusDays(d, n) == IF n = 0 THEN d ELSE MinusDays(PrevDay(d), n - 1)

\* x.replace(day=1)
ReplaceDay1(d) == MkDate(Year(d), Month(d), 1)

\* the days of the proleptic Gregorian calendar before 1 January of year y
DaysBeforeYear(y) ==
    (y - 1) * 365 + ((y - 1) \div 4) - ((y - 1) \div 100) + ((y - 1) \div 400)

RECURSIVE DaysBeforeMonth(_, _)
DaysBeforeMonth(y, m) ==
    IF m = 1 THEN 0 ELSE DaysBeforeMonth(y, m - 1) + DaysInMonth(y, m - 1)

\* date.toordinal(): day 1 is Monday 1 January of year 1
DayOrdinal(d) ==
    DaysBeforeYear(Year(d)) + DaysBeforeMonth(Year(d), Month(d)) + Day(d)

(***************************************************************************)
(* Cells and columns                                                       *)
(***************************************************************************)
NaN == [null |-> TRUE, v |-> ""]

Val(s) == [null |-> FALSE, v |-> s]

\* Series.astype(str): a missing cell becomes the string "nan"
AsTypeStr(c) == IF c.null THEN "nan" ELSE c.v

\* Series.isin(values) on the raw column: a missing cell equals no string
IsIn(c, values) == (~c.null) /\ c.v \in values

\* Series.astype(str).isin(values)
StrIsIn(c, values) == AsTypeStr(c) \in values

\* the missing IncidentID, which nunique() does not count
NaNId == 0

\* Series.nunique() of the IncidentID column of a frame
NUnique(frame) == Cardinality({r.IncidentID : r \in frame} \ {NaNId})

\* the ten filter dimensions of the sidebar
FilterDims ==
    {"neighborhood", "zip", "FullStreet", "Season", "Weekend", "DayOfWeek",
     "TimeOfDay", "Agency", "Offense", "ReportingOfficer"}

\* the menus computed with get_options from the neighborhood-filtered frame
DownstreamMenus ==
    {"zip", "FullStreet", "Season", "DayOfWeek", "TimeOfDay", "Agency",
     "Offense", "ReportingOfficer"}

\* the multiselects that follow the neighborhood one
DownstreamDims == DownstreamMenus \cup {"Weekend"}

\* weekend_options = [True, False]
WeekendOptions == {"True", "False"}

(***************************************************************************)
(* The spreadsheets the model draws                                        *)
(***************************************************************************)
MaxFilterRows == 3

MaxMetricRows == 3

MaxIncident == 2

BaseDims ==
    [neighborhood |-> Val("Belmont"), zip |-> Val("22902"),
     FullStreet |-> Val("100 E MAIN ST"), Season |-> Val("Winter"),
     Weekend |-> Val("False"), DayOfWeek |-> Val("Monday"),
     TimeOfDay |-> Val("Morning"), Agency |-> Val("CPD"),
     Offense |-> Val("Larceny"), ReportingOfficer |-> Val("Smith")]

Row(id, incident, date, dims) ==
    dims @@ [RecordID |-> id, IncidentID |-> incident, Date |-> date]

\* the columns in which the rows of the filter sheets differ, and the
\* second value each takes
VariedDims == <<"neighborhood", "zip", "Offense", "ReportingOfficer", "Weekend">>

AltValue ==
    [neighborhood |-> "Venable", zip |-> "22903", Offense |-> "Assault",
     ReportingOfficer |-> "Jones", Weekend |-> "True"]

FilterDay == MkDate(2024, 3, 10)

FilterPool ==
    {Row(1, 1, FilterDay, BaseDims), Row(2, 2, 20240312, BaseDims),
     Row(3, 2, NaT, BaseDims)}
    \cup {Row(10 + i, 1, FilterDay,
              [BaseDims EXCEPT ![VariedDims[i]] = Val(AltValue[VariedDims[i]])])
          : i \in 1..Len(VariedDims)}
    \cup {Row(20 + i, 2, FilterDay, [BaseDims EXCEPT ![VariedDims[i]] = NaN])
          : i \in 1..Len(VariedDims)}

MetricDays ==
    <<20240314, 20240305, 20240320, 20240105, 20231220, 20230210, 20240220>>

MetricPool ==
    {Row(100 + 10 * k + i, i, MetricDays[k], BaseDims)
     : k \in 1..Len(MetricDays), i \in 1..MaxIncident}
    \cup {Row(98, 1, NaT, BaseDims), Row(99, NaNId, MetricDays[1], BaseDims)}

\* the sheets of at most n rows of a pool that the date pickers accept:
\* empty, or with a dated row
Sheets(pool, n) ==
    {s \in SUBSET pool :
        /\ Cardinality(s) <= n
        /\ (s = {} \/ \E r \in s : r.Date # NaT)}

FilterToday == {20240315}

\* The sheets of the chart passes: more offenses than the Top 10 keeps and
\* more streets than the Top 25 keeps, incidents that span two categories,
\* and dates that leave a gap at every resolution.
ChartOffenses ==
    <<"Larceny", "Assault", "Vandalism", "Burglary", "Fraud", "Trespass",
      "Robbery", "DUI", "Harassment", "Arson", "Forgery">>

ChartStreets ==
    <<"100 E MAIN ST", "200 E MAIN ST", "300 E MAIN ST", "400 E MAIN ST",
      "500 E MAIN ST", "600 E MAIN ST", "700 E MAIN ST", "800 E MAIN ST",
      "900 E MAIN ST", "100 W MAIN ST", "200 W MAIN ST", "300 W MAIN ST",
      "400 W MAIN ST", "500 W MAIN ST", "600 W MAIN ST", "700 W MAIN ST",
      "800 W MAIN ST", "900 W MAIN ST", "100 RIDGE ST", "200 RIDGE ST",
      "300 RIDGE ST", "400 RIDGE ST", "500 RIDGE ST", "600 RIDGE ST",
      "700 RIDGE ST", "800 RIDGE ST">>

ChartSeasons == <<"Winter", "Spring", "Summer", "Autumn">>

ChartDaysOfWeek ==
    <<"Monday", "Tuesday", "Wednesday", "Thursday", "Friday", "Saturday",
      "Sunday">>

ChartTimesOfDay == <<"Morning", "Afternoon", "Evening", "Night", "Early Morning">>

\* one value in three, so that the key order is not the count order
ChartOneInThree(a, b) == <<a, b, b>>

ChartDays == <<20220615, 20240105, 20240305, 20240314>>

Cyclic(seq, i) == seq[((i - 1) % Len(seq)) + 1]

\* every fourth row belongs to the incident of the row before it
ChartIncident(i) == IF i % 4 = 0 THEN i - 1 ELSE i

ChartRow(i) ==
    Row(200 + i, ChartIncident(i), Cyclic(ChartDays, i),
        [neighborhood |-> Val(Cyclic(ChartOneInThree("Belmont", "Venable"), i)),
         zip |-> Val(Cyclic(ChartOneInThree("22902", "22903"), i)),
         FullStreet |-> Val(Cyclic(ChartStreets, i)),
         Season |-> Val(Cyclic(ChartSeasons, i)),
         Weekend |-> Val(Cyclic(ChartOneInThree("False", "True"), i)),
         DayOfWeek |-> Val(Cyclic(ChartDaysOfWeek, i)),
         TimeOfDay |-> Val(Cyclic(ChartTimesOfDay, i)),
         Agency |-> Val("CPD"),
         Offense |-> Val(Cyclic(ChartOffenses, i)),
         ReportingOfficer |-> Val(Cyclic(ChartOneInThree("Smith", "Jones"), i))])

\* the numbers of rows of the chart sheets: a few, about as many as there
\* are offenses, and one fewer and one more than there are streets
ChartSizes ==
    (0..4) \cup ((Len(ChartOffenses) - 1)..(Len(ChartOffenses) + 2))
           \cup {Len(ChartStreets) - 1, Len(ChartStreets) + 1}

\* the sheets of the first n rows
ChartSheets == {{ChartRow(i) : i \in 1..n} : n \in ChartSizes}

ChartToday == {20240315}

\* the versions of the file a session sees: one row, or another
CachePool == {Row(301, 1, 20240314, BaseDims), Row(302, 2, 20240305, BaseDims)}

CacheSheets == {{r} : r \in CachePool}

CacheToday == {20240315}

\* the modification times the file takes
MaxMtime == 2

\* the time that passes between two observations of the clock
TickStep == 20

\* a first-quarter day, the leap day, a January day, a second-quarter day
MetricToday == {20240315, 20240229, 20240110, 20240520}

(***************************************************************************)
(* State                                                                   *)
(***************************************************************************)
VARIABLES
    excel,        \* rows of charlottesville_crime_incidents.xlsx as read
    mtime,        \* os.path.getmtime of that file
    cache,        \* the entries st.cache_data holds for load_data
    clicked,      \* st.button("Refresh Data") of this pass
    today,        \* the calendar date of the system clock
    pc,           \* position of the pass in the script
    file_mtime,   \* line 76 (line 81)
    served,       \* how the call of load_data got its value
    df,           \* the loaded table
    start_date,   \* sidebar date range
    end_date,
    options,      \* the option list of each dimension's multiselect
    selected,     \* the accepted set of each dimension
    filtered_df,  \* lines 166-169, then lines 247-260
    metrics,      \* the names the metrics section has bound, with their values
    raised,       \* the exception that ended the pass, or "none"
    aggregates,   \* the group-by result of each chart
    resolution,   \* st.selectbox("Select Resolution")
    time_series,  \* lines 401-430: Count of each bucket
    frames        \* the frame each chart is drawn from

\* the file, the cache and the button
sessionVars == <<excel, mtime, cache, clicked>>

\* what the charts section assigns
chartVars == <<aggregates, resolution, time_series, frames>>

vars ==
    <<excel, mtime, cache, clicked, today, pc, file_mtime, served, df,
      start_date, end_date, options, selected, filtered_df, metrics, raised,
      aggregates, resolution, time_series, frames>>

NoSets == [d \in FilterDims |-> {}]

(***************************************************************************)
(* load_data and the checks that follow it (lines 44-107)                  *)
(***************************************************************************)
\* df["zip"] = df["zip"].astype(str); Date is coerced to NaT where unparseable
LoadedRow(r) == [r EXCEPT !.zip = Val(AsTypeStr(r.zip))]

load_data(sheet) == {LoadedRow(r) : r \in sheet}

\* @st.cache_data(ttl=60): an entry is served while it is younger than this
ttl == 60

\* the cache with no entry
NoEntries == [k \in {} |-> [value |-> {}, age |-> 0]]

\* a Refresh click that leaves the entries in place
CacheKeptOnClick(c, click) == c

\* lines 79-80: load_data.clear() on a Refresh click
CacheAfterButton(c, click) == IF click THEN NoEntries ELSE c

\* the keys whose entry is younger than ttl; an older entry stays until the
\* next store evicts it, and is never served
Live(c) == {k \in DOMAIN c : c[k].age < ttl}

\* load_data(key) under st.cache_data: the stored value of the key, or, when
\* there is none to serve, the value the body computes from the file
CachedValue(c, key, sheet) ==
    IF key \in Live(c) THEN c[key].value ELSE load_data(sheet)

\* the entries after the call: a miss stores what the body returned and
\* evicts the entries that have expired
CacheAfterCall(c, key, sheet) ==
    IF key \in Live(c) THEN c
    ELSE [k \in Live(c) \cup {key} |->
             IF k = key THEN [value |-> load_data(sheet), age |-> 0] ELSE c[k]]

\* the way the call takes through lines 79-84 and the cache
LoadPath(c, click, key) ==
    IF click THEN "cleared"
    ELSE IF key \in Live(c) THEN "hit"
    ELSE IF key \in DOMAIN c THEN "expired"
    ELSE "miss"

\* Lines 74-107.  os.path.getmtime and the read of the file are taken
\* together.
LoadData ==
    /\ pc = "load"
    /\ file_mtime' = mtime
    /\ served' = LoadPath(cache, clicked, mtime)
    /\ df' = CachedValue(CacheAfterButton(cache, clicked), mtime, excel)
    /\ cache' = CacheAfterCall(CacheAfterButton(cache, clicked), mtime, excel)
    /\ pc' = IF df' = {} THEN "stopped" ELSE "sidebar"
    /\ UNCHANGED <<excel, mtime, clicked, today, start_date, end_date, options,
                   selected, filtered_df, metrics, raised>>
    /\ UNCHANGED chartVars

(***************************************************************************)
(* The session around a pass: the file is rewritten, time passes, and an   *)
(* interaction starts the script again                                     *)
(***************************************************************************)
\* The file is replaced by another version; its modification time changes,
\* goes back to an earlier value, or stays (a write within the timestamp's
\* granularity).
ModifyFile(sheets) ==
    /\ \E s \in sheets, m \in 1..MaxMtime :
          /\ <<s, m>> # <<excel, mtime>>
          /\ excel' = s
          /\ mtime' = m
    /\ UNCHANGED <<cache, clicked, today, pc, file_mtime, served, df, start_date,
                   end_date, options, selected, filtered_df, metrics, raised>>
    /\ UNCHANGED chartVars

\* the entries after a lapse of time; an age is not followed beyond ttl
Aged(c, lapse) ==
    [k \in DOMAIN c |->
        [c[k] EXCEPT !.age = IF @ + lapse < ttl THEN @ + lapse ELSE ttl]]

Tick ==
    /\ Live(cache) # {}
    /\ cache' = Aged(cache, TickStep)
    /\ UNCHANGED <<excel, mtime, clicked, today, pc, file_mtime, served, df, start_date,
                   end_date, options, selected, filtered_df, metrics, raised>>
    /\ UNCHANGED chartVars

(***************************************************************************)
(* Sidebar (lines 133-241)                                                 *)
(***************************************************************************)
get_options(col, frame) == {AsTypeStr(r[col]) : r \in frame}

Dates(frame) == {r.Date : r \in frame} \ {NaT}

MinOf(S) == CHOOSE x \in S : \A y \in S : x <= y

MaxOf(S) == CHOOSE x \in S : \A y \in S : x >= y

\* the ends of the range the two date pickers allow
DatePicks(frame) == {MinOf(Dates(frame)), MaxOf(Dates(frame))}

\* lines 166-169
NeighborhoodFilter(frame, selected_neighborhood) ==
    IF selected_neighborhood # {}
    THEN {r \in frame : StrIsIn(r.neighborhood, selected_neighborhood)}
    ELSE frame

\* every menu computed from the table before the neighborhood filter
MenusFromFull(full, prefiltered) ==
    [d \in FilterDims |->
        IF d = "Weekend" THEN WeekendOptions ELSE get_options(d, full)]

\* the option list of every multiselect, given the neighborhood-filtered frame
Menus(full, prefiltered) ==
    [d \in FilterDims |->
        IF d = "neighborhood" THEN get_options(d, full)
        ELSE IF d = "Weekend" THEN WeekendOptions
        ELSE get_options(d, prefiltered)]

\* The user picks the date range and the neighborhoods, and changes at most
\* one of the `changeable` multiselects away from its default, which is
\* every option.
Sidebar(changeable) ==
    /\ pc = "sidebar"
    /\ \E s \in DatePicks(df), e \in DatePicks(df) :
          /\ start_date' = s
          /\ end_date' = e
    /\ \E nb \in SUBSET get_options("neighborhood", df) :
          /\ filtered_df' = NeighborhoodFilter(df, nb)
          /\ options' = Menus(df, filtered_df')
          /\ \E d \in changeable \cup {"neighborhood"} :
                \E picked \in SUBSET options'[d] :
                   selected' = [[x \in FilterDims |-> options'[x]]
                                   EXCEPT !["neighborhood"] = nb, ![d] =
                                      IF d = "neighborhood" THEN nb ELSE picked]
    /\ pc' = "filter"
    /\ UNCHANGED <<today, file_mtime, served, df, metrics, raised>>
    /\ UNCHANGED sessionVars
    /\ UNCHANGED chartVars

(***************************************************************************)
(* Filter Data Based on Selections (lines 247-260)                         *)
(***************************************************************************)
DateInRange(r, s, e) == r.Date # NaT /\ r.Date >= s /\ r.Date <= e

\* the final filter without its last line, line 259
FinalFilterNoNeighborhood(frame, sel, s, e) ==
    {r \in frame :
        /\ DateInRange(r, s, e)
        /\ IsIn(r.Offense, sel["Offense"])
        /\ StrIsIn(r.ReportingOfficer, sel["ReportingOfficer"])
        /\ IsIn(r.Agency, sel["Agency"])
        /\ IsIn(r.TimeOfDay, sel["TimeOfDay"])
        /\ IsIn(r.DayOfWeek, sel["DayOfWeek"])
        /\ IsIn(r.Weekend, sel["Weekend"])
        /\ IsIn(r.Season, sel["Season"])
        /\ IsIn(r.FullStreet, sel["FullStreet"])
        /\ IsIn(r.zip, sel["zip"])}

FinalFilter(frame, sel, s, e) ==
    {r \in frame :
        /\ DateInRange(r, s, e)
        /\ IsIn(r.Offense, sel["Offense"])
        /\ StrIsIn(r.ReportingOfficer, sel["ReportingOfficer"])
        /\ IsIn(r.Agency, sel["Agency"])
        /\ IsIn(r.TimeOfDay, sel["TimeOfDay"])
        /\ IsIn(r.DayOfWeek, sel["DayOfWeek"])
        /\ IsIn(r.Weekend, sel["Weekend"])
        /\ IsIn(r.Season, sel["Season"])
        /\ IsIn(r.FullStreet, sel["FullStreet"])
        /\ IsIn(r.zip, sel["zip"])
        /\ StrIsIn(r.neighborhood, sel["neighborhood"])}

ApplyFilters ==
    /\ pc = "filter"
    /\ filtered_df' = FinalFilter(filtered_df, selected, start_date, end_date)
    /\ pc' = "metrics"
    /\ UNCHANGED <<today, file_mtime, served, df, start_date, end_date, options,
                   selected, metrics, raised>>
    /\ UNCHANGED sessionVars
    /\ UNCHANGED chartVars

(***************************************************************************)
(* Metrics Section (lines 267-364)                                         *)
(***************************************************************************)
\* A displayed percentage f"{x:.1f}%" is held as its sign and its digits in
\* tenths; "N/A" and "nan%" are the two other strings a metric can show.
NA == [kind |-> "N/A", neg |-> FALSE, tenths |-> 0]

NanPct == [kind |-> "nan%", neg |-> FALSE, tenths |-> 0]

Abs(x) == IF x < 0 THEN -x ELSE x

\* n / d rounded to the nearest integer, ties to even, for n >= 0 and d > 0
RoundHalfEven(n, d) ==
    LET q == n \div d
        r == n % d
    IN  IF 2 * r < d THEN q
        ELSE IF 2 * r > d THEN q + 1
        ELSE IF q % 2 = 0 THEN q ELSE q + 1

\* f"{(num / den) * 100:.1f}%" for den # 0
Pct1(num, den) ==
    [kind |-> "pct", neg |-> num < 0,
     tenths |-> RoundHalfEven(Abs(num) * 1000, den)]

\* ((cur - prev) / prev) * 100 as shown, behind the guard prev != 0
Growth(cur, prev) == IF prev # 0 THEN Pct1(cur - prev, prev) ELSE NA

\* frame[frame["Date"].dt.date >= lo]: a NaT compares False
Since(frame, lo) == {r \in frame : r.Date # NaT /\ r.Date >= lo}

\* frame[(frame["Date"].dt.date >= lo) & (frame["Date"].dt.date <= hi)]
Between(frame, lo, hi) ==
    {r \in frame : r.Date # NaT /\ r.Date >= lo /\ r.Date <= hi}

\* the comparison of lines 276, 309, 310 turned round: the records dated on
\* or before the day n days back
incidents_before_days(fdf, cur, n) ==
    NUnique({r \in fdf : r.Date # NaT /\ r.Date <= MinusDays(cur, n)})

\* lines 276, 309, 310
incidents_last_days(fdf, cur, n) == NUnique(Since(fdf, MinusDays(cur, n)))

\* line 277
df_this_year(fdf, cur) ==
    {r \in fdf : r.Date # NaT /\ Year(r.Date) = Year(cur)}

\* line 278
df_this_month(fdf, cur) ==
    {r \in df_this_year(fdf, cur) : Month(r.Date) = Month(cur)}

\* the previous month taken from the filtered table of every year
incidents_last_month_any_year(fdf, cur) ==
    NUnique({r \in fdf :
                /\ r.Date # NaT
                /\ r.Date >= ReplaceDay1(PrevDay(ReplaceDay1(cur)))
                /\ r.Date < ReplaceDay1(cur)})

\* lines 279-282
incidents_last_month(fdf, cur) ==
    NUnique({r \in df_this_year(fdf, cur) :
                /\ r.Date >= ReplaceDay1(PrevDay(ReplaceDay1(cur)))
                /\ r.Date < ReplaceDay1(cur)})

MonthIndex(d) == Year(d) * 12 + Month(d) - 1

RECURSIVE AscendingSeq(_)
\* the members of a set of integers, in increasing order
AscendingSeq(S) ==
    IF S = {} THEN <<>> ELSE <<MinOf(S)>> \o AscendingSeq(S \ {MinOf(S)})

\* a monthly grouping that yields a bin only for a month that has rows
MonthlyBinsWithoutGaps(frame) ==
    LET months == AscendingSeq({MonthIndex(d) : d \in Dates(frame)})
    IN  [i \in 1..Len(months) |->
            NUnique({r \in frame :
                        r.Date # NaT /\ MonthIndex(r.Date) = months[i]})]

\* groupby(pd.Grouper(key="Date", freq="ME"))["IncidentID"].nunique(): one
\* bin per calendar month from the first dated row to the last, a month
\* without rows included with the count 0
MonthlyBins(frame) ==
    IF Dates(frame) = {} THEN <<>>
    ELSE LET lo == MonthIndex(MinOf(Dates(frame)))
             hi == MonthIndex(MaxOf(Dates(frame)))
         IN  [i \in 1..(hi - lo + 1) |->
                 NUnique({r \in frame :
                             r.Date # NaT /\ MonthIndex(r.Date) = lo + i - 1})]

\* line 287
monthly_counts(fdf, cur) == MonthlyBins(df_this_year(fdf, cur))

\* lines 288-292
mom_growth_str(fdf, cur) ==
    LET mc == monthly_counts(fdf, cur)
        n == Len(mc)
    IN  IF n >= 2 /\ mc[n - 1] # 0
        THEN Pct1(mc[n] - mc[n - 1], mc[n - 1])
        ELSE NA

\* lines 294-296
current_ytd(fdf, cur) ==
    NUnique(Between(df_this_year(fdf, cur), MkDate(Year(cur), 1, 1), cur))

\* the prior year taken from the filtered table, as the current year is
last_year_data_filtered(fdf, full, cur) ==
    {r \in fdf : r.Date # NaT /\ Year(r.Date) = Year(cur) - 1}

\* line 300: the prior year is taken from df, the table before any filter
last_year_data(fdf, full, cur) ==
    {r \in full : r.Date # NaT /\ Year(r.Date) = Year(cur) - 1}

\* lines 298-301, where datetime.date(current_year - 1, month, day) exists
last_year_ytd(fdf, full, cur) ==
    NUnique(Between(last_year_data(fdf, full, cur),
                    MkDate(Year(cur) - 1, 1, 1),
                    MkDate(Year(cur) - 1, Month(cur), Day(cur))))

\* lines 302-306
yoy_growth_str(fdf, full, cur) ==
    Growth(current_ytd(fdf, cur), last_year_ytd(fdf, full, cur))

\* the last week without its upper end, as line 276 has none
last_week_count_open(fdf, cur) == NUnique(Since(fdf, MinusDays(cur, 7)))

\* lines 314-319
last_week_count(fdf, cur) ==
    NUnique(Between(fdf, MinusDays(cur, 7), MinusDays(cur, 1)))

previous_week_count(fdf, cur) ==
    NUnique(Between(fdf, MinusDays(cur, 14), MinusDays(cur, 8)))

\* lines 320-324
wow_growth_str(fdf, cur) ==
    Growth(last_week_count(fdf, cur), previous_week_count(fdf, cur))

\* line 327
current_quarter(cur) == ((Month(cur) - 1) \div 3) + 1

\* line 328
quarter_start(cur) == MkDate(Year(cur), (current_quarter(cur) - 1) * 3 + 1, 1)

\* line 329
current_quarter_count(fdf, cur) == NUnique(Between(fdf, quarter_start(cur), cur))

\* lines 331-335 and 341, the branch current_quarter == 1
previous_quarter_count(fdf, cur) ==
    NUnique(Between(fdf, MkDate(Year(cur) - 1, 10, 1),
                    MkDate(Year(cur) - 1, 12, 31)))

\* lines 342-346
qoq_growth_str(fdf, cur) ==
    Growth(current_quarter_count(fdf, cur), previous_quarter_count(fdf, cur))

\* groupby(col)["IncidentID"].nunique(): the rows with a missing key are
\* dropped; the result maps each remaining key to its distinct incidents
GroupCounts(col, frame) ==
    [c \in {r[col].v : r \in {x \in frame : ~x[col].null}} |->
        NUnique({r \in frame : r[col] = Val(c)})]

RECURSIVE SumOver(_, _)
SumOver(f, S) ==
    IF S = {} THEN 0
    ELSE LET c == CHOOSE x \in S : TRUE IN f[c] + SumOver(f, S \ {c})

\* offense_counts["Count"].sum()
CountSum(counts) == SumOver(counts, DOMAIN counts)

\* the keys sort_values("Count", ascending=False) may put first: the order
\* of equal counts is not specified
TopKeys(counts) ==
    {c \in DOMAIN counts : \A o \in DOMAIN counts : counts[o] <= counts[c]}

\* lines 356-360; numpy divides 0 by 0 to nan, shown as "nan%"
offense_percent_str(count, total) ==
    IF total = 0 THEN NanPct ELSE Pct1(count, total)

\* lines 298-299: the names bound when datetime.date(...) raises ValueError
BoundBeforeYoY(fdf, cur) ==
    [total_incidents |-> NUnique(fdf),
     incidents_last7days |-> incidents_last_days(fdf, cur, 7),
     incidents_last_month |-> incidents_last_month(fdf, cur),
     incidents_this_month |-> NUnique(df_this_month(fdf, cur)),
     incidents_this_year |-> NUnique(df_this_year(fdf, cur)),
     mom_growth_str |-> mom_growth_str(fdf, cur),
     current_ytd |-> current_ytd(fdf, cur)]

\* lines 300-329
BoundBeforeQoQ(fdf, full, cur) ==
    [last_year_ytd |-> last_year_ytd(fdf, full, cur),
     yoy_growth_str |-> yoy_growth_str(fdf, full, cur),
     incidents_last3days |-> incidents_last_days(fdf, cur, 3),
     incidents_last2weeks |-> incidents_last_days(fdf, cur, 14),
     last_week_count |-> last_week_count(fdf, cur),
     previous_week_count |-> previous_week_count(fdf, cur),
     wow_growth_str |-> wow_growth_str(fdf, cur),
     current_quarter_count |-> current_quarter_count(fdf, cur)]

\* lines 341-364
BoundAfterQoQ(fdf, cur, top) ==
    LET counts == GroupCounts("Offense", fdf)
    IN  [previous_quarter_count |-> previous_quarter_count(fdf, cur),
         qoq_growth_str |-> qoq_growth_str(fdf, cur),
         most_freq_offense |-> top,
         most_freq_count |-> IF DOMAIN counts = {} THEN 0 ELSE counts[top],
         offense_percent_str |->
            IF DOMAIN counts = {} THEN NA
            ELSE offense_percent_str(counts[top], CountSum(counts))]

\* line 299 raises ValueError on 29 February: the year before has no such day
PriorYearEndExists(cur) == ValidDate(Year(cur) - 1, Month(cur), Day(cur))

\* line 339: datetime.date(...) - pd.Timedelta(days=1) is a datetime.date,
\* which has no date(); the else branch raises AttributeError
PrevQuarterEndBuilds(cur) == current_quarter(cur) = 1

\* One run of lines 267-364.  `metrics` holds the names the run has bound;
\* an exception ends the pass, and nothing below st.header("Metrics") shows.
ComputeMetrics ==
    /\ pc = "metrics"
    /\ IF ~PriorYearEndExists(today)
       THEN /\ metrics' = BoundBeforeYoY(filtered_df, today)
            /\ raised' = "ValueError"
       ELSE IF ~PrevQuarterEndBuilds(today)
       THEN /\ metrics' = BoundBeforeYoY(filtered_df, today)
                            @@ BoundBeforeQoQ(filtered_df, df, today)
            /\ raised' = "AttributeError"
       ELSE /\ \E top \in IF filtered_df = {} \/ TopKeys(GroupCounts("Offense", filtered_df)) = {}
                          THEN {"N/A"}
                          ELSE TopKeys(GroupCounts("Offense", filtered_df)) :
                   metrics' = BoundBeforeYoY(filtered_df, today)
                                @@ BoundBeforeQoQ(filtered_df, df, today)
                                @@ BoundAfterQoQ(filtered_df, today, top)
            /\ raised' = "none"
    /\ pc' = IF raised' = "none" THEN "charts" ELSE "raised"
    /\ UNCHANGED <<today, file_mtime, served, df, start_date, end_date, options,
                   selected, filtered_df>>
    /\ UNCHANGED sessionVars
    /\ UNCHANGED chartVars

(***************************************************************************)
(* Incidents Over Time (lines 396-450)                                     *)
(***************************************************************************)
Resolutions == {"Daily", "Weekly", "Monthly", "Quarterly", "Yearly"}

\* the period of a date at a resolution, as an index that grows by one from
\* a period to the next: the day; the week Monday to Sunday (freq="W"); the
\* month; the quarter ending in March, June, September or December; the year
Period(res, d) ==
    CASE res = "Daily" -> DayOrdinal(d)
      [] res = "Weekly" -> (DayOrdinal(d) - 1) \div 7
      [] res = "Monthly" -> MonthIndex(d)
      [] res = "Quarterly" -> Year(d) * 4 + ((Month(d) - 1) \div 3)
      [] res = "Yearly" -> Year(d)

\* ["IncidentID"].nunique() of the rows of a period
BucketCount(res, frame, p) ==
    NUnique({r \in frame : r.Date # NaT /\ Period(res, r.Date) = p})

\* lines 402-406, groupby(filtered_df["Date"].dt.date): a group for each
\* date that occurs
DailyGroups(frame) ==
    [p \in {DayOrdinal(d) : d \in Dates(frame)} |->
        BucketCount("Daily", frame, p)]

\* a grouping by period that yields a bin only for a period that has rows
GrouperBinsWithoutGaps(res, frame) ==
    [p \in {Period(res, d) : d \in Dates(frame)} |-> BucketCount(res, frame, p)]

\* lines 408-430, groupby(pd.Grouper(key="Date", freq=...)): a bin for every
\* period from that of the first dated row to that of the last
GrouperBins(res, frame) ==
    [p \in IF Dates(frame) = {} THEN {}
           ELSE Period(res, MinOf(Dates(frame)))
                   ..Period(res, MaxOf(Dates(frame))) |->
        BucketCount(res, frame, p)]

\* the Count of each bucket of time_series
TimeSeries(res, frame) ==
    IF res = "Daily" THEN DailyGroups(frame) ELSE GrouperBins(res, frame)

(***************************************************************************)
(* Grouped breakdowns (lines 464-722)                                      *)
(***************************************************************************)
\* the columns the charts group by
GroupedDims ==
    {"Season", "Weekend", "DayOfWeek", "TimeOfDay", "Offense",
     "ReportingOfficer", "zip", "neighborhood", "FullStreet"}

\* the frame of each chart and the column it groups by
ChartColumn ==
    [freq_season |-> "Season", freq_weekend |-> "Weekend",
     freq_day |-> "DayOfWeek", freq_tod |-> "TimeOfDay",
     top10_offenses |-> "Offense", bottom10_offenses |-> "Offense",
     reporting_counts |-> "ReportingOfficer", zip_counts |-> "zip",
     nb_counts |-> "neighborhood", top25_fs |-> "FullStreet",
     top25_offense |-> "Offense"]

ChartNames == DOMAIN ChartColumn

\* .head(10), lines 571 and 587
HeadOffenses == 10

\* .head(25), lines 695 and 721
HeadPie == 25

weekday_order ==
    <<"Sunday", "Monday", "Tuesday", "Wednesday", "Thursday", "Friday",
      "Saturday">>

time_order == <<"Early Morning", "Morning", "Afternoon", "Evening", "Night">>

\* the keys of the columns whose frame stays in the order of groupby, in
\* that order: the ascending order of the keys
AscendingKeys ==
    <<"22902", "22903", "Autumn", "Belmont", "False", "Spring", "Summer",
      "True", "Venable", "Winter", "nan">>

\* the frames whose PercentTotal divides by total_incidents: lines 469, 491,
\* 513, 538, 572, 588, 610, 642
DividesByTotalIncidents ==
    {"freq_season", "freq_weekend", "freq_day", "freq_tod", "top10_offenses",
     "bottom10_offenses", "reporting_counts", "zip_counts"}

\* every frame dividing by the sum of its own group-by result
DenominatorOwnSum(chart, counts, total_incidents) == CountSum(counts)

\* the denominator of PercentTotal: total_incidents, or the sum of the
\* counts of the whole group-by result (total_nb, total_fs, total_offense,
\* lines 666, 694, 720)
Denominator(chart, counts, total_incidents) ==
    IF chart \in DividesByTotalIncidents THEN total_incidents
    ELSE CountSum(counts)

\* Count / den * 100, held as the fraction; 0 / 0 is nan
Fraction(num, den) == [num |-> num, den |-> den]

RECURSIVE DescendingCounts(_, _)
\* the counts of a set of keys from the largest to the smallest
DescendingCounts(counts, keys) ==
    IF keys = {} THEN <<>>
    ELSE LET k == CHOOSE x \in keys : \A y \in keys : counts[y] <= counts[x]
         IN  <<counts[k]>> \o DescendingCounts(counts, keys \ {k})

Reverse(seq) == [i \in 1..Len(seq) |-> seq[Len(seq) + 1 - i]]

\* the Count column of sort_values("Count", ascending=...) over the keys
SortedCounts(counts, keys, ascending) ==
    IF ascending THEN Reverse(DescendingCounts(counts, keys))
    ELSE DescendingCounts(counts, keys)

RECURSIVE KSubsets(_, _)
\* the subsets of n elements
KSubsets(S, n) ==
    IF n = 0 THEN {{}}
    ELSE IF Cardinality(S) < n THEN {}
    ELSE LET x == CHOOSE y \in S : TRUE
         IN  {T \cup {x} : T \in KSubsets(S \ {x}, n - 1)}
                \cup KSubsets(S \ {x}, n)

\* a head that keeps any n keys, whatever their counts
HeadKeysUnsorted(counts, n, ascending) ==
    IF Cardinality(DOMAIN counts) <= n THEN {DOMAIN counts}
    ELSE KSubsets(DOMAIN counts, n)

\* sort_values("Count", ascending=...).head(n): the sets of keys it may
\* keep.  The order of equal counts is not specified, so of the keys whose
\* count is the one at the cut any may be kept.
HeadKeys(counts, n, ascending) ==
    IF Cardinality(DOMAIN counts) <= n THEN {DOMAIN counts}
    ELSE LET cut == SortedCounts(counts, DOMAIN counts, ascending)[n]
             sure == {k \in DOMAIN counts :
                        IF ascending THEN counts[k] < cut ELSE counts[k] > cut}
             tied == {k \in DOMAIN counts : counts[k] = cut}
         IN  {sure \cup T : T \in KSubsets(tied, n - Cardinality(sure))}

\* A frame: the Count of each key it keeps, the Count column in row order,
\* and PercentTotal.
Frame(counts, keys, rows, den) ==
    [Count |-> [k \in keys |-> counts[k]],
     rows |-> rows,
     PercentTotal |-> [k \in keys |-> Fraction(counts[k], den)]]

\* a frame whose rows follow a listed order of the keys: the order of
\* groupby, or the categories of lines 514-515 and 539-540
ListedFrame(counts, order, den) ==
    LET keys == SelectSeq(order, LAMBDA k : k \in DOMAIN counts)
    IN  Frame(counts, DOMAIN counts,
              [i \in 1..Len(keys) |-> counts[keys[i]]], den)

\* a frame sorted by Count, of the keys a head has kept
SortedFrame(counts, keys, ascending, den) ==
    Frame(counts, keys, SortedCounts(counts, keys, ascending), den)

Charts ==
    /\ pc = "charts"
    /\ aggregates' = [d \in GroupedDims |-> GroupCounts(d, filtered_df)]
    /\ \E res \in Resolutions :
          /\ resolution' = res
          /\ time_series' =
                LET buckets == TimeSeries(res, filtered_df)
                IN  [Count |-> buckets,
                     customdata |->
                        [p \in DOMAIN buckets |->
                            Fraction(buckets[p], metrics["total_incidents"])]]
    /\ LET counts(chart) == aggregates'[ChartColumn[chart]]
           den(chart) ==
               Denominator(chart, counts(chart), metrics["total_incidents"])
           listed(chart, order) == ListedFrame(counts(chart), order, den(chart))
           sorted(chart, keys, ascending) ==
               SortedFrame(counts(chart), keys, ascending, den(chart))
       IN  \E top10 \in HeadKeys(counts("top10_offenses"), HeadOffenses, FALSE),
              bottom10 \in HeadKeys(counts("bottom10_offenses"), HeadOffenses, TRUE),
              fs \in HeadKeys(counts("top25_fs"), HeadPie, FALSE),
              offense \in HeadKeys(counts("top25_offense"), HeadPie, FALSE) :
              frames' =
                 [freq_season |-> listed("freq_season", AscendingKeys),
                  freq_weekend |-> listed("freq_weekend", AscendingKeys),
                  freq_day |-> listed("freq_day", weekday_order),
                  freq_tod |-> listed("freq_tod", time_order),
                  top10_offenses |-> sorted("top10_offenses", top10, FALSE),
                  bottom10_offenses |-> sorted("bottom10_offenses", bottom10, TRUE),
                  reporting_counts |->
                     sorted("reporting_counts",
                            DOMAIN counts("reporting_counts"), FALSE),
                  zip_counts |-> listed("zip_counts", AscendingKeys),
                  nb_counts |-> listed("nb_counts", AscendingKeys),
                  top25_fs |-> sorted("top25_fs", fs, FALSE),
                  top25_offense |-> sorted("top25_offense", offense, FALSE)]
    /\ pc' = "done"
    /\ UNCHANGED <<today, file_mtime, served, df, start_date, end_date, options,
                   selected, filtered_df, metrics, raised>>
    /\ UNCHANGED sessionVars

\* An interaction starts the script again, with or without the Refresh
\* button, ending the pass under way.
Rerun ==
    /\ pc # "load"
    /\ clicked' \in BOOLEAN
    /\ pc' = "load"
    /\ file_mtime' = 0
    /\ served' = "none"
    /\ df' = {}
    /\ start_date' = NaT
    /\ end_date' = NaT
    /\ options' = NoSets
    /\ selected' = NoSets
    /\ filtered_df' = {}
    /\ metrics' = <<>>
    /\ raised' = "none"
    /\ aggregates' = <<>>
    /\ resolution' = "Daily"
    /\ time_series' = <<>>
    /\ frames' = <<>>
    /\ UNCHANGED <<excel, mtime, cache, today>>

(***************************************************************************)
(* Specifications                                                          *)
(***************************************************************************)
InitPass ==
    /\ pc = "load"
    /\ file_mtime = 0
    /\ served = "none"
    /\ resolution = "Daily"
    /\ time_series = <<>>
    /\ frames = <<>>
    /\ df = {}
    /\ start_date = NaT
    /\ end_date = NaT
    /\ options = NoSets
    /\ selected = NoSets
    /\ filtered_df = {}
    /\ metrics = <<>>
    /\ raised = "none"
    /\ aggregates = <<>>

\* the first pass of a session: nothing is cached and no button is clicked
InitSession ==
    /\ mtime = 1
    /\ cache = NoEntries
    /\ clicked = FALSE

InitFilter ==
    /\ excel \in Sheets(FilterPool, MaxFilterRows)
    /\ today \in FilterToday
    /\ InitSession
    /\ InitPass

InitMetrics ==
    /\ excel \in Sheets(MetricPool, MaxMetricRows)
    /\ today \in MetricToday
    /\ InitSession
    /\ InitPass

InitCharts ==
    /\ excel \in ChartSheets
    /\ today \in ChartToday
    /\ InitSession
    /\ InitPass

InitCache ==
    /\ excel \in CacheSheets
    /\ today \in CacheToday
    /\ mtime = 1
    /\ cache = NoEntries
    /\ clicked \in BOOLEAN
    /\ InitPass

Init == InitFilter \/ InitMetrics \/ InitCharts \/ InitCache

NextFilter ==
    \/ LoadData
    \/ Sidebar(DownstreamDims)
    \/ ApplyFilters
    \/ ComputeMetrics
    \/ Charts

NextMetrics ==
    \/ LoadData
    \/ Sidebar({})
    \/ ApplyFilters
    \/ ComputeMetrics
    \/ Charts

\* the passes of a session, one after another, while the file is rewritten
\* and time passes
NextCache ==
    \/ LoadData
    \/ Sidebar({})
    \/ ApplyFilters
    \/ ComputeMetrics
    \/ Charts
    \/ ModifyFile(CacheSheets)
    \/ Tick
    \/ Rerun

Next == NextFilter \/ NextCache

SpecFilter == InitFilter /\ [][NextFilter]_vars

SpecMetrics == InitMetrics /\ [][NextMetrics]_vars

SpecCharts == InitCharts /\ [][NextMetrics]_vars

SpecCache == InitCache /\ [][NextCache]_vars

Spec == Init /\ [][Next]_vars

(***************************************************************************)
(* Properties                                                              *)
(***************************************************************************)
AfterFilter == {"metrics", "charts", "done", "raised"}

AfterMetrics == {"charts", "done", "raised"}

\* the string that stands for a record's value in a dimension
Token(r, d) == AsTypeStr(r[d])

\* every multiselect is left at its default, every option
DefaultSelection == \A d \in FilterDims : selected[d] = options[d]

\* C1: the filtered table is exactly the set of records of the input table
\* whose calendar date lies in [start_date, end_date] and whose value in each
\* of the ten dimensions is in that dimension's accepted set.
C1_FilteredIsExactlyTheAccepted ==
    pc \in AfterFilter =>
        filtered_df =
            {r \in df :
                /\ r.Date # NaT
                /\ start_date <= r.Date
                /\ r.Date <= end_date
                /\ \A d \in FilterDims : Token(r, d) \in selected[d]}

\* What holds of C1: over the records without a missing cell the filtered
\* table is exactly the set of accepted records.
FilteredIsExactWithoutMissingCells ==
    pc \in AfterFilter =>
        LET Complete(frame) ==
                {r \in frame : \A d \in FilterDims : ~r[d].null}
        IN  Complete(filtered_df) =
                {r \in Complete(df) :
                    /\ r.Date # NaT
                    /\ start_date <= r.Date
                    /\ r.Date <= end_date
                    /\ \A d \in FilterDims : Token(r, d) \in selected[d]}

\* C2: an empty accepted set in any of the ten dimensions, neighborhood
\* included, leaves the final filtered table empty.
C2_EmptySelectionExcludesEverything ==
    (pc \in AfterFilter /\ \E d \in FilterDims : selected[d] = {})
        => filtered_df = {}

\* C2 witness: the neighborhood selection is empty, so lines 166-169 skip the
\* pre-filter, every other multiselect is at its default, and a record lies
\* in the date range.
C2_Witness ==
    /\ pc = "metrics"
    /\ selected["neighborhood"] = {}
    /\ \A d \in FilterDims \ {"neighborhood"} :
          selected[d] = options[d] /\ selected[d] # {}
    /\ \E r \in df :
          /\ DateInRange(r, start_date, end_date)
          /\ \A d \in FilterDims \ {"neighborhood"} : Token(r, d) \in selected[d]
    /\ filtered_df = {}

\* C3: a record with a missing value in a categorical filter dimension is
\* represented by a token like any other value: the token is in the
\* dimension's option list; with every option selected and the record's date
\* in the range the record is kept; and a kept record is counted under that
\* token in the dimension's grouped aggregate.  (The token is taken as the
\* script spells it, "nan"; the claim spells it "N/A".)
C3_MissingValueIsATokenLikeAnyOther ==
    pc = "done" =>
        \A d \in FilterDims \ {"Weekend"} :
            \A r \in df :
                r[d].null =>
                    /\ Token(r, d) \in options[d]
                    /\ (/\ DefaultSelection
                        /\ DateInRange(r, start_date, end_date))
                           => r \in filtered_df
                    /\ (r \in filtered_df /\ d \in GroupedDims
                                          /\ r.IncidentID # NaNId)
                           => /\ Token(r, d) \in DOMAIN aggregates[d]
                              /\ aggregates[d][Token(r, d)] >= 1

\* C4 as written: for every neighborhood selection, the empty one included,
\* a downstream menu offers only values of the records whose neighborhood is
\* in the selection; the neighborhood menu comes from the full table.
C4_MenusFromSelectedNeighborhoods ==
    pc = "filter" =>
        /\ options["neighborhood"] = {Token(r, "neighborhood") : r \in df}
        /\ \A d \in DownstreamMenus :
              options[d] \subseteq
                 {Token(r, d) :
                    r \in {x \in df : Token(x, "neighborhood")
                                         \in selected["neighborhood"]}}

\* C4 as amended: with a non-empty neighborhood selection a downstream menu
\* is the set of values of the records whose neighborhood is selected; with
\* the empty selection it is the set of values of the full table; the
\* neighborhood menu is always computed from the full table.
C4_MenusCascade ==
    pc = "filter" =>
        /\ options["neighborhood"] = {Token(r, "neighborhood") : r \in df}
        /\ \A d \in DownstreamMenus :
              options[d] =
                 {Token(r, d) :
                    r \in {x \in df :
                             \/ selected["neighborhood"] = {}
                             \/ Token(x, "neighborhood")
                                   \in selected["neighborhood"]}}

\* C4 witness: a non-empty neighborhood selection excludes a record whose
\* zip occurs in no remaining record, and the zip menu does not offer it.
C4_Witness ==
    /\ pc = "filter"
    /\ selected["neighborhood"] # {}
    /\ \E r \in df :
          /\ Token(r, "neighborhood") \notin selected["neighborhood"]
          /\ Token(r, "zip") \notin options["zip"]
    /\ options["zip"] # {}

(***************************************************************************)
(* Properties of the metrics                                               *)
(***************************************************************************)
\* the distinct incidents of the records of a frame dated in [lo, hi]
DistinctIn(frame, lo, hi) ==
    Cardinality({r.IncidentID :
                    r \in {x \in frame :
                             x.Date # NaT /\ lo <= x.Date /\ x.Date <= hi}}
                \ {NaNId})

\* "N/A" when the baseline is 0, else (cur - prev) / prev * 100 to one decimal
ExpectedGrowth(cur, prev) ==
    IF prev = 0 THEN NA ELSE Pct1(cur - prev, prev)

Jan1(y) == MkDate(y, 1, 1)

\* the months of the reference year in which the filtered table has a record
MonthsWithRecords ==
    {Month(r.Date) :
        r \in {x \in filtered_df : x.Date # NaT /\ Year(x.Date) = Year(today)}}

\* the distinct incidents of the filtered table in month m of the reference year
MonthCount(m) ==
    DistinctIn(filtered_df, MkDate(Year(today), m, 1),
               MkDate(Year(today), m, DaysInMonth(Year(today), m)))

\* MoM over the last two calendar months of the span of the this-year subset
ExpectedMoM ==
    IF Cardinality(MonthsWithRecords) < 2 THEN NA
    ELSE LET hi == MaxOf(MonthsWithRecords)
         IN  ExpectedGrowth(MonthCount(hi), MonthCount(hi - 1))

ExpectedWoW ==
    ExpectedGrowth(
        DistinctIn(filtered_df, MinusDays(today, 7), MinusDays(today, 1)),
        DistinctIn(filtered_df, MinusDays(today, 14), MinusDays(today, 8)))

\* ceil(month / 3)
QuarterOf(d) == (Month(d) + 2) \div 3

QuarterFirstDay(y, q) == MkDate(y, 3 * q - 2, 1)

QuarterLastDay(y, q) == MkDate(y, 3 * q, DaysInMonth(y, 3 * q))

ExpectedQoQ ==
    LET q == QuarterOf(today)
        py == IF q = 1 THEN Year(today) - 1 ELSE Year(today)
        pq == IF q = 1 THEN 4 ELSE q - 1
    IN  ExpectedGrowth(
            DistinctIn(filtered_df, QuarterFirstDay(Year(today), q), today),
            DistinctIn(filtered_df, QuarterFirstDay(py, pq),
                       QuarterLastDay(py, pq)))

\* last year's count, from the full table, up to the reference day a year back
PriorYearBaseline ==
    DistinctIn(df, Jan1(Year(today) - 1),
               MkDate(Year(today) - 1, Month(today), Day(today)))

ExpectedYoY ==
    ExpectedGrowth(DistinctIn(filtered_df, Jan1(Year(today)), today),
                   PriorYearBaseline)

Bound(name) == name \in DOMAIN metrics

\* C5: after a completed metrics pass each of Incidents Last 3 / 7 / 14 Days
\* is the number of distinct incidents of the filtered records dated in
\* [reference_date - N, reference_date]; a later record is not counted.
C5_LastNDaysIsAClosedWindow ==
    pc \in {"charts", "done"} =>
        /\ metrics["incidents_last3days"]
              = DistinctIn(filtered_df, MinusDays(today, 3), today)
        /\ metrics["incidents_last7days"]
              = DistinctIn(filtered_df, MinusDays(today, 7), today)
        /\ metrics["incidents_last2weeks"]
              = DistinctIn(filtered_df, MinusDays(today, 14), today)

\* C6: a metrics pass yields each of WoW, MoM, QoQ and YoY, as "N/A" exactly
\* when its baseline count is 0 and else as (current - previous) / previous
\* * 100 to one decimal with a trailing '%'.
C6_GrowthIsNAExactlyOnZeroBaseline ==
    pc \in AfterMetrics =>
        /\ Bound("wow_growth_str") /\ metrics["wow_growth_str"] = ExpectedWoW
        /\ Bound("mom_growth_str") /\ metrics["mom_growth_str"] = ExpectedMoM
        /\ Bound("qoq_growth_str") /\ metrics["qoq_growth_str"] = ExpectedQoQ
        /\ Bound("yoy_growth_str") /\ metrics["yoy_growth_str"] = ExpectedYoY

\* What holds of C6: each growth metric a pass has computed is "N/A" exactly
\* when its baseline is 0, and else the rounded percentage.
GrowthFormulaWhereComputed ==
    pc \in AfterMetrics =>
        /\ Bound("wow_growth_str") => metrics["wow_growth_str"] = ExpectedWoW
        /\ Bound("mom_growth_str") => metrics["mom_growth_str"] = ExpectedMoM
        /\ Bound("qoq_growth_str") => metrics["qoq_growth_str"] = ExpectedQoQ
        /\ Bound("yoy_growth_str") => metrics["yoy_growth_str"] = ExpectedYoY

\* C7 as written: MoM compares the two most recent months that have records
\* in the this-year subset, skipping a month without incidents between them;
\* "N/A" with fewer than two such months or a previous count of zero.
C7_MoMOverNonEmptyMonths ==
    pc \in AfterMetrics =>
        metrics["mom_growth_str"] =
            IF Cardinality(MonthsWithRecords) < 2 THEN NA
            ELSE LET hi == MaxOf(MonthsWithRecords)
                     prev == MaxOf(MonthsWithRecords \ {hi})
                 IN  ExpectedGrowth(MonthCount(hi), MonthCount(prev))

\* C7 as amended: MoM compares the last two calendar months of the span from
\* the earliest to the latest record of the this-year subset, a month without
\* incidents inside the span counting 0; "N/A" when the span is a single
\* month (or empty) or the month before the latest has no incident.
C7_MoMOverLastTwoCalendarMonths ==
    pc \in AfterMetrics => metrics["mom_growth_str"] = ExpectedMoM

\* C7 witness: the this-year subset has incidents in the latest month and in
\* an earlier one, none in the month before the latest, and MoM is "N/A".
C7_Witness ==
    /\ pc \in AfterMetrics
    /\ Cardinality(MonthsWithRecords) >= 2
    /\ MonthCount(MaxOf(MonthsWithRecords)) > 0
    /\ MaxOf(MonthsWithRecords) - 1 \notin MonthsWithRecords
    /\ MonthCount(MaxOf(MonthsWithRecords \ {MaxOf(MonthsWithRecords)})) > 0
    /\ metrics["mom_growth_str"] = NA

\* C8: YoY, once computed, compares the filtered table's distinct incidents in
\* [Jan 1, reference_date] with the full table's in [Jan 1 of the previous
\* year, reference_date a year back]: the baseline does not depend on the
\* filter selection, and YoY is "N/A" iff that baseline is zero.
C8_YoYBaselineIsTheFullTable ==
    (pc \in AfterMetrics /\ Bound("yoy_growth_str")) =>
        /\ metrics["last_year_ytd"] = PriorYearBaseline
        /\ metrics["yoy_growth_str"] = ExpectedYoY
        /\ (metrics["yoy_growth_str"] = NA) <=> (PriorYearBaseline = 0)

\* C8 witness: the filter has removed every prior-year record and kept an
\* incident of this year, the full table has an incident in the baseline
\* window, and YoY is a percentage.
C8_Witness ==
    /\ pc \in AfterMetrics
    /\ Bound("yoy_growth_str")
    /\ PriorYearBaseline > 0
    /\ DistinctIn(filtered_df, Jan1(Year(today) - 1),
                  MkDate(Year(today) - 1, Month(today), Day(today))) = 0
    /\ DistinctIn(filtered_df, Jan1(Year(today)), today) > 0
    /\ metrics["yoy_growth_str"].kind = "pct"

GrowthNames ==
    {"wow_growth_str", "mom_growth_str", "qoq_growth_str", "yoy_growth_str"}

\* C9: with an empty filtered table a completed metrics pass shows Total
\* Incidents 0, Most Frequent Offense ("N/A", 0, "N/A") and "N/A" for each of
\* WoW, MoM, QoQ and YoY, and every grouped aggregate is empty.
C9_EmptyFilteredTableGivesSentinels ==
    (pc \in {"charts", "done"} /\ filtered_df = {}) =>
        /\ metrics["total_incidents"] = 0
        /\ metrics["most_freq_offense"] = "N/A"
        /\ metrics["most_freq_count"] = 0
        /\ metrics["offense_percent_str"] = NA
        /\ \A g \in GrowthNames : metrics[g] = NA
        /\ pc = "done" => \A d \in GroupedDims : DOMAIN aggregates[d] = {}

\* C10: for every reference date the metrics pass completes without raising
\* and each growth metric is a percentage string or "N/A".
C10_MetricsPassNeverRaises ==
    pc \in AfterMetrics =>
        /\ raised = "none"
        /\ \A g \in GrowthNames :
              Bound(g) /\ metrics[g].kind \in {"pct", "N/A"}

\* the quarter before the reference quarter: its year and its number
PrevQuarterYear == IF QuarterOf(today) = 1 THEN Year(today) - 1 ELSE Year(today)

PrevQuarterNo == IF QuarterOf(today) = 1 THEN 4 ELSE QuarterOf(today) - 1

\* the QoQ windows as claimed: [quarter_start, reference_date] and the full
\* previous quarter, which ends the day before quarter_start
QoQWindowsAsClaimed ==
    /\ metrics["current_quarter_count"]
          = DistinctIn(filtered_df, QuarterFirstDay(Year(today), QuarterOf(today)),
                       today)
    /\ metrics["previous_quarter_count"]
          = DistinctIn(filtered_df,
                       QuarterFirstDay(PrevQuarterYear, PrevQuarterNo),
                       QuarterLastDay(PrevQuarterYear, PrevQuarterNo))
    /\ metrics["qoq_growth_str"] = ExpectedQoQ
    /\ QuarterLastDay(PrevQuarterYear, PrevQuarterNo)
          = PrevDay(QuarterFirstDay(Year(today), QuarterOf(today)))

\* C11: in every metrics pass that gets past the year-over-year section, QoQ
\* is computed, from the filtered table's distinct incidents in
\* [quarter_start, reference_date] against those of the full previous quarter
\* (Oct 1 - Dec 31 of the previous year in Q1), two windows that do not
\* overlap, the previous one ending the day before quarter_start.
C11_QoQComparesQuarterToDateWithPreviousQuarter ==
    (pc \in AfterMetrics /\ raised # "ValueError") =>
        /\ Bound("current_quarter_count")
        /\ Bound("previous_quarter_count")
        /\ Bound("qoq_growth_str")
        /\ QoQWindowsAsClaimed

\* What holds of C11: where QoQ is computed, which is in the first quarter
\* only, its windows are the claimed ones.
QoQWindowsWhereComputed ==
    (pc \in AfterMetrics /\ Bound("qoq_growth_str")) =>
        /\ QuarterOf(today) = 1
        /\ QoQWindowsAsClaimed

\* C12: WoW, once computed, compares the filtered table's distinct incidents
\* in [reference_date - 7d, reference_date - 1d] with those in
\* [reference_date - 14d, reference_date - 8d]; the windows are adjacent,
\* disjoint and seven days long, the reference date is in neither, and the
\* result is "N/A" iff the previous-week count is zero.
C12_WoWComparesTwoAdjacentWeeks ==
    (pc \in AfterMetrics /\ Bound("wow_growth_str")) =>
        /\ metrics["last_week_count"]
              = DistinctIn(filtered_df, MinusDays(today, 7), MinusDays(today, 1))
        /\ metrics["previous_week_count"]
              = DistinctIn(filtered_df, MinusDays(today, 14), MinusDays(today, 8))
        /\ metrics["wow_growth_str"]
              = ExpectedGrowth(metrics["last_week_count"],
                               metrics["previous_week_count"])
        /\ (metrics["wow_growth_str"] = NA)
              <=> (metrics["previous_week_count"] = 0)
        /\ MinusDays(today, 8) = PrevDay(MinusDays(today, 7))
        /\ MinusDays(today, 1) = PrevDay(today)
        /\ MinusDays(MinusDays(today, 1), 6) = MinusDays(today, 7)
        /\ MinusDays(MinusDays(today, 8), 6) = MinusDays(today, 14)

\* C12 witness: the filtered table has an incident in each of the two weeks
\* and a record dated on or after the reference date, which neither week
\* counts, and WoW is a percentage.
C12_Witness ==
    /\ pc \in AfterMetrics
    /\ Bound("wow_growth_str")
    /\ metrics["last_week_count"] > 0
    /\ metrics["previous_week_count"] > 0
    /\ \E r \in filtered_df : r.Date >= today /\ r.IncidentID # NaNId
    /\ metrics["last_week_count"] < metrics["total_incidents"]
    /\ metrics["wow_growth_str"].kind = "pct"

\* first and last day of the calendar month before the reference month
PrevMonthLast == PrevDay(ReplaceDay1(today))

PrevMonthFirst == ReplaceDay1(PrevMonthLast)

\* the records of the filtered table dated in the reference year
ThisYearSubset ==
    {r \in filtered_df : r.Date # NaT /\ Year(r.Date) = Year(today)}

LastMonthCountsOutsideJanuary ==
    /\ pc \in AfterMetrics
    /\ Month(today) # 1
    /\ metrics["incidents_last_month"] > 0

\* a <= b for two metrics, wherever the pass has bound both
MetricLeq(a, b) == (Bound(a) /\ Bound(b)) => metrics[a] <= metrics[b]

\* C18: Incidents Last 3 Days <= Last 7 Days <= Last 2 Weeks <= Total
\* Incidents, Incidents This Month <= This Year <= Total Incidents, and
\* Incidents Last Month <= This Year, for every filtered table and every
\* reference date on which the pass computes them.
C18_ScalarMetricsAreNested ==
    pc \in AfterMetrics =>
        /\ MetricLeq("incidents_last3days", "incidents_last7days")
        /\ MetricLeq("incidents_last7days", "incidents_last2weeks")
        /\ MetricLeq("incidents_last2weeks", "total_incidents")
        /\ MetricLeq("incidents_this_month", "incidents_this_year")
        /\ MetricLeq("incidents_this_year", "total_incidents")
        /\ MetricLeq("incidents_last_month", "incidents_this_year")
        /\ Bound("incidents_last7days") /\ Bound("total_incidents")
        /\ Bound("incidents_this_month") /\ Bound("incidents_this_year")
        /\ Bound("incidents_last_month")
        /\ raised # "ValueError"
              => Bound("incidents_last3days") /\ Bound("incidents_last2weeks")

\* C18 witness: a pass in which the 3-day count is below the 7-day count and
\* this month's count below this year's.
C18_Witness ==
    /\ pc \in AfterMetrics
    /\ Bound("incidents_last3days")
    /\ metrics["incidents_last3days"] < metrics["incidents_last7days"]
    /\ metrics["incidents_this_month"] < metrics["incidents_this_year"]

\* C18 second witness: the 2-week count is below the total and last month's
\* count is positive and below this year's.
NestedCountsDifferFurther ==
    /\ pc \in AfterMetrics
    /\ Bound("incidents_last2weeks")
    /\ metrics["incidents_last2weeks"] < metrics["total_incidents"]
    /\ 0 < metrics["incidents_last_month"]
    /\ metrics["incidents_last_month"] < metrics["incidents_this_year"]

(***************************************************************************)
(* Properties of the charts                                                *)
(***************************************************************************)
\* the group-by result a frame is cut from
GroupByOf(chart) == aggregates[ChartColumn[chart]]

\* every PercentTotal of the frame has the denominator den
DividesBy(chart, den) ==
    \A k \in DOMAIN frames[chart].PercentTotal :
        frames[chart].PercentTotal[k].den = den

\* the numerators of the frame add up to its denominator: 100 per cent
SumsToHundred(chart) ==
    \A k \in DOMAIN frames[chart].PercentTotal :
        CountSum(frames[chart].Count) = frames[chart].PercentTotal[k].den

DetailedBreakdowns == {"freq_season", "freq_weekend", "freq_day", "freq_tod"}

\* C14 as written: the time series and the season, weekend, day-of-week and
\* time-of-day breakdowns divide by Total Incidents; every other frame
\* divides by the sum of the counts of its own group-by result, so that over
\* the full group-by result its percentages sum to 100%.
C14_OwnSumExceptTimeSeriesAndDetailed ==
    pc = "done" =>
        /\ \A p \in DOMAIN time_series.customdata :
              time_series.customdata[p].den = metrics["total_incidents"]
        /\ \A chart \in DetailedBreakdowns :
              DividesBy(chart, metrics["total_incidents"])
        /\ \A chart \in ChartNames \ DetailedBreakdowns :
              /\ DividesBy(chart, CountSum(GroupByOf(chart)))
              /\ DOMAIN frames[chart].Count = DOMAIN GroupByOf(chart)
                    => SumsToHundred(chart)

\* C14 as amended: the time series, the four detailed breakdowns, the Top 10
\* and Bottom 10 offenses, the reporting officers and the zip distribution
\* divide by Total Incidents; the neighborhood distribution, the Top 25
\* FullStreet and the Top 25 offenses divide by the sum of the counts of
\* their whole group-by result, and over a frame that keeps the whole result
\* the percentages sum to 100%.
C14_DenominatorPerCallSite ==
    pc = "done" =>
        /\ \A p \in DOMAIN time_series.customdata :
              time_series.customdata[p].den = metrics["total_incidents"]
        /\ \A chart \in DetailedBreakdowns
                          \cup {"top10_offenses", "bottom10_offenses",
                                "reporting_counts", "zip_counts"} :
              DividesBy(chart, metrics["total_incidents"])
        /\ \A chart \in {"nb_counts", "top25_fs", "top25_offense"} :
              /\ DividesBy(chart, CountSum(GroupByOf(chart)))
              /\ DOMAIN frames[chart].Count = DOMAIN GroupByOf(chart)
                    => SumsToHundred(chart)

\* C14 witness: an incident spans two offenses, two zips and two
\* neighborhoods, so the sum of each group-by result exceeds Total Incidents;
\* the offense and zip frames divide by Total Incidents and their
\* percentages sum to more than 100, the neighborhood frame by its own sum.
C14_Witness ==
    /\ pc = "done"
    /\ metrics["total_incidents"] > 0
    /\ \A chart \in {"top10_offenses", "zip_counts", "nb_counts"} :
          CountSum(GroupByOf(chart)) > metrics["total_incidents"]
    /\ ~SumsToHundred("top10_offenses")
    /\ ~SumsToHundred("zip_counts")
    /\ SumsToHundred("nb_counts")
    /\ DOMAIN frames["top10_offenses"].Count = DOMAIN GroupByOf("top10_offenses")

\* the periods from that of the earliest dated record of the filtered table
\* to that of the latest
ObservedSpan(res) ==
    IF Dates(filtered_df) = {} THEN {}
    ELSE Period(res, MinOf(Dates(filtered_df)))
            ..Period(res, MaxOf(Dates(filtered_df)))

\* the periods in which the filtered table has a dated record
PeriodsWithRecords(res) == {Period(res, d) : d \in Dates(filtered_df)}

\* every bucket holds the distinct incidents of the records of its period
BucketsCountDistinctIncidents ==
    \A p \in DOMAIN time_series.Count :
        time_series.Count[p] =
            Cardinality({r.IncidentID :
                           r \in {x \in filtered_df :
                                    x.Date # NaT
                                    /\ Period(resolution, x.Date) = p}}
                        \ {NaNId})

\* C15 as written: at every resolution the time series has a bucket for
\* every period from the earliest to the latest dated record of the filtered
\* table, a period without incidents included with the value 0, and each
\* bucket's value is its distinct incident count.
C15_BucketForEveryPeriodOfTheSpan ==
    pc = "done" =>
        /\ DOMAIN time_series.Count = ObservedSpan(resolution)
        /\ BucketsCountDistinctIncidents

\* C15 as amended: at the Weekly, Monthly, Quarterly and Yearly resolutions
\* the time series has a bucket for every period of the span, an empty
\* period with the value 0; at the Daily resolution it has a bucket only for
\* the dates on which the filtered table has a record, the days between them
\* being omitted; each bucket's value is its distinct incident count.
C15_GapsKeptExceptDaily ==
    pc = "done" =>
        /\ resolution # "Daily"
              => DOMAIN time_series.Count = ObservedSpan(resolution)
        /\ resolution = "Daily"
              => DOMAIN time_series.Count = PeriodsWithRecords("Daily")
        /\ BucketsCountDistinctIncidents

\* C15 witness: at a resolution other than Daily the series has a bucket of
\* value 0 between two buckets with incidents.
C15_Witness ==
    /\ pc = "done"
    /\ resolution # "Daily"
    /\ \E p, q, u \in DOMAIN time_series.Count :
          /\ p < q /\ q < u
          /\ time_series.Count[p] > 0
          /\ time_series.Count[q] = 0
          /\ q \notin PeriodsWithRecords(resolution)
          /\ time_series.Count[u] > 0

\* C15 second witness: at the Daily resolution a day of the span is omitted.
DailyOmitsDaysWithoutRecords ==
    /\ pc = "done"
    /\ resolution = "Daily"
    /\ \E p \in ObservedSpan("Daily") : p \notin DOMAIN time_series.Count
    /\ Cardinality(DOMAIN time_series.Count) >= 2

\* the Count column falls from each row to the next
StrictlyDescending(rows) ==
    \A i, j \in 1..Len(rows) : i < j => rows[i] > rows[j]

NonIncreasing(rows) ==
    \A i, j \in 1..Len(rows) : i < j => rows[i] >= rows[j]

NonDecreasing(rows) ==
    \A i, j \in 1..Len(rows) : i < j => rows[i] <= rows[j]

\* the frame keeps min(k, number of categories) rows, and no category it
\* leaves out has a count above (below, for the bottom) one it keeps
KeepsTheExtreme(chart, k, bottom) ==
    LET all == GroupByOf(chart)
        kept == DOMAIN frames[chart].Count
    IN  /\ Len(frames[chart].rows) = Cardinality(kept)
        /\ Cardinality(kept) =
              IF Cardinality(DOMAIN all) <= k THEN Cardinality(DOMAIN all) ELSE k
        /\ kept \subseteq DOMAIN all
        /\ \A a \in kept : frames[chart].Count[a] = all[a]
        /\ \A a \in kept, b \in DOMAIN all \ kept :
              IF bottom THEN all[a] <= all[b] ELSE all[a] >= all[b]

\* C16 read with equal counts allowed, which does not hold either: the
\* weekend, zip and neighborhood frames are not sorted by count.
SortedDescendingAllowingTies ==
    pc = "done" =>
        \A chart \in {"freq_weekend", "zip_counts", "nb_counts",
                       "top10_offenses", "reporting_counts", "top25_fs",
                       "top25_offense"} :
            NonIncreasing(frames[chart].rows)

\* the frames that have no domain order
WithoutDomainOrder == ChartNames \ {"freq_season", "freq_day", "freq_tod"}

\* C16 as written: every grouped aggregate without a domain order is sorted
\* strictly descending by count (the Bottom 10 ascending, smallest first);
\* the Top 10 and Top 25 keep at most k rows, the k categories of highest
\* count, and the Bottom 10 at most k rows.
C16_SortedStrictlyDescending ==
    pc = "done" =>
        /\ \A chart \in WithoutDomainOrder \ {"bottom10_offenses"} :
              StrictlyDescending(frames[chart].rows)
        /\ NonDecreasing(frames["bottom10_offenses"].rows)
        /\ KeepsTheExtreme("top10_offenses", HeadOffenses, FALSE)
        /\ KeepsTheExtreme("bottom10_offenses", HeadOffenses, TRUE)
        /\ KeepsTheExtreme("top25_fs", HeadPie, FALSE)
        /\ KeepsTheExtreme("top25_offense", HeadPie, FALSE)

\* the Count column of a group-by result in the ascending order of its keys
InKeyOrder(chart) ==
    LET keys == SelectSeq(AscendingKeys, LAMBDA k : k \in DOMAIN GroupByOf(chart))
    IN  [i \in 1..Len(keys) |-> GroupByOf(chart)[keys[i]]]

\* C16 as amended: the Top 10 offenses, the reporting officers, the Top 25
\* FullStreet and the Top 25 offenses are sorted by count from the largest
\* down, equal counts in no specified order, and the Bottom 10 offenses from
\* the smallest up; a head of k keeps min(k, number of categories) rows and
\* leaves out no category whose count is above (for the bottom, below) that
\* of one it keeps.  The weekend, zip, neighborhood and season frames are
\* not sorted by count: they stay in the ascending order of their keys.
C16_SortedByCountWhereSorted ==
    pc = "done" =>
        /\ \A chart \in {"top10_offenses", "reporting_counts", "top25_fs",
                         "top25_offense"} :
              NonIncreasing(frames[chart].rows)
        /\ NonDecreasing(frames["bottom10_offenses"].rows)
        /\ KeepsTheExtreme("top10_offenses", HeadOffenses, FALSE)
        /\ KeepsTheExtreme("bottom10_offenses", HeadOffenses, TRUE)
        /\ KeepsTheExtreme("top25_fs", HeadPie, FALSE)
        /\ KeepsTheExtreme("top25_offense", HeadPie, FALSE)
        /\ KeepsTheExtreme("reporting_counts",
                           Cardinality(DOMAIN GroupByOf("reporting_counts")),
                           FALSE)
        /\ \A chart \in {"freq_weekend", "zip_counts", "nb_counts",
                         "freq_season"} :
              frames[chart].rows = InKeyOrder(chart)

\* C16 witness: there are more offenses than the Top 10 keeps and more
\* streets than the Top 25 keeps, both heads are cut and hold unequal
\* counts, and the weekend frame has its smaller count first.
C16_Witness ==
    /\ pc = "done"
    /\ Cardinality(DOMAIN GroupByOf("top10_offenses")) > HeadOffenses
    /\ Len(frames["top10_offenses"].rows) = HeadOffenses
    /\ frames["top10_offenses"].rows[1] > frames["top10_offenses"].rows[HeadOffenses]
    /\ frames["bottom10_offenses"].rows[1]
          < frames["bottom10_offenses"].rows[HeadOffenses]
    /\ Cardinality(DOMAIN GroupByOf("top25_fs")) > HeadPie
    /\ Len(frames["top25_fs"].rows) = HeadPie
    /\ frames["top25_fs"].rows[1] > frames["top25_fs"].rows[HeadPie]
    /\ Len(frames["freq_weekend"].rows) = 2
    /\ frames["freq_weekend"].rows[1] < frames["freq_weekend"].rows[2]

(***************************************************************************)
(* Properties of the cached load                                           *)
(***************************************************************************)
\* the step of a pass that calls load_data
LoadStep == pc = "load" /\ pc' # "load"

\* a step inside a pass, after its load
StepWithinPass == pc # "load" /\ pc' # "load"

\* an entry stored under the modification time the pass reads, still
\* younger than the TTL
ServableEntry == mtime \in DOMAIN cache /\ cache[mtime].age < ttl

\* C17: over any sequence of passes, file modifications, lapses of time and
\* Refresh clicks, a pass that follows a Refresh click, or for whose
\* modification time no table is cached, or whose cached table has reached
\* the TTL, gets the table loaded from the file as it is now; a pass gets a
\* cached table only without a click, under the same modification-time key
\* and before the TTL; and no step of a pass after its load changes the
\* table.
C17_ReloadOrReuseOneSnapshot ==
    [][/\ LoadStep =>
            /\ (clicked \/ ~ServableEntry) =>
                  /\ df' = load_data(excel)
                  /\ served' # "hit"
                  /\ cache'[mtime] = [value |-> load_data(excel), age |-> 0]
            /\ served' = "hit" =>
                  /\ ~clicked
                  /\ ServableEntry
                  /\ df' = cache[mtime].value
                  /\ cache' = cache
       /\ StepWithinPass =>
            /\ df' = df
            /\ filtered_df' \subseteq df
       ]_vars

\* C17 witness: a pass without a click has read a modification time other
\* than the one the stored table is under, and has loaded from the file a
\* table that differs from the stored one.
C17_Witness ==
    /\ pc \in AfterFilter
    /\ served = "miss"
    /\ \E k \in DOMAIN cache :
          k # file_mtime /\ cache[k].value # df /\ cache[k].age > 0
    /\ df = load_data(excel)
    /\ filtered_df # {}

\* C17 further witnesses: a reload after the TTL and after a click, each
\* with a file whose content has changed since the first pass; and a reuse
\* of a cached table that the file no longer matches.
ReloadedAfterExpiry ==
    pc \in AfterFilter /\ served = "expired" /\ df = load_data(excel)

ReloadedAfterClick ==
    pc \in AfterFilter /\ served = "cleared" /\ df = load_data(excel)
        /\ DOMAIN cache = {file_mtime}

ReusedWithinTTL ==
    pc \in AfterFilter /\ served = "hit" /\ df # load_data(excel)
        /\ mtime = file_mtime

====
